---- MODULE Spec2Model ----
(***************************************************************************)
(* Token-budget truncation engine of weblinx:                              *)
(*   weblinx/processing/truncation.py  (length reducer, center truncator,  *)
(*                                      DOM and candidate drivers)         *)
(*   weblinx/processing/prompt.py      (previous-turns driver)             *)
(*   weblinx/utils/recs.py             (list helpers)                      *)
(*                                                                         *)
(* Texts are sequences of one-character strings.  Python's None is the     *)
(* value None below.  A call that raises is recorded by the name of the    *)
(* exception in the `status` field of its outcome.                         *)
(***************************************************************************)
EXTENDS Integers, Sequences, FiniteSets, TLC

VARIABLES
    pc,           \* position of the modelled call
    lengths,      \* reduce_list_of_lengths: argument `lengths`
    max_length,   \* reduce_list_of_lengths: argument `max_length`
    new_lengths,  \* reduce_list_of_lengths: outcome of the call
    again,        \* outcome of the call on the returned vector, same max_length
    lower,        \* a second max_length, not above the first, and its outcome
    tokenizer,    \* the tokenizer handed to every call
    text,         \* truncate_text_at_center: argument `text`
    max_tokens,   \* truncate_text_at_center: argument `max_tokens`
    ellipsis,     \* truncate_text_at_center: argument `ellipsis`
    mode,         \* truncate_text_at_center: the three mode flags
    trunc,        \* truncate_text_at_center: outcome of the call
    driver,       \* multi-attempt driver that is running: "dom", "cands", "prev"
    input,        \* the document the caller handed to the driver, as the caller sees it
    doc,          \* the document the driver holds (dom_tree, cands_turn, prev_turns_formatted)
    shared,       \* the document the driver holds is the caller's object, not a copy
    turn_sep,     \* previous-turns driver: argument `turn_sep`, None for a list
    num_prev_turns, \* previous-turns driver: argument `num_prev_turns`
    prev_turns_lst, \* previous-turns driver: the values written by the last format call
    max_attempts, \* driver argument `max_attempts`
    num_attempts, \* loop iterations the driver has completed
    measured,     \* token count of the last measurement of the formatted document
    passes,       \* calls of the structured truncation that had tokens to remove
    warned,       \* the driver has logged its warning
    result,       \* outcome of the driver
    replay,       \* the turns of a demonstration, turn.index = position from 0
    turn,         \* find_turns_with_instructor_chat: index of the argument `turn`
    speaker,      \* find_turns_with_instructor_chat: argument `speaker`
    instructor_chat_turns, \* outcome of find_turns_with_instructor_chat
    turns,        \* format_utterances(_truncated): argument `turns`
    num_utterances, \* format_utterances(_truncated): argument `num_utterances`
    sep,          \* format_utterances(_truncated): argument `sep`, None for a list
    utterances    \* outcome of format_utterances or format_utterances_truncated

vars == <<pc, lengths, max_length, new_lengths, again, lower,
          tokenizer, text, max_tokens, ellipsis, mode, trunc,
          driver, input, doc, shared, turn_sep, num_prev_turns, prev_turns_lst,
          max_attempts, num_attempts, measured, passes, warned, result,
          replay, turn, speaker, instructor_chat_turns, turns, num_utterances,
          sep, utterances>>

reducerVars == <<lengths, max_length, new_lengths, again, lower>>
truncatorVars == <<tokenizer, text, max_tokens, ellipsis, mode, trunc>>
driverVars == <<driver, input, doc, shared, turn_sep, num_prev_turns,
                prev_turns_lst, max_attempts, num_attempts, measured,
                passes, warned, result>>
promptVars == <<replay, turn, speaker, instructor_chat_turns, turns,
                num_utterances, sep, utterances>>

(***************************************************************************)
(* Bounds of the model.                                                    *)
(***************************************************************************)
MaxItems == 3      \* longest length vector
MaxItemLen == 4    \* largest single length
MaxTextLen == 5    \* longest text handed to the center truncator, in characters
MaxBudget == 4     \* largest max_tokens handed to the center truncator
MaxAttempts == 2   \* largest max_attempts handed to a driver
MaxCut == 5        \* lowest driver budget, in tokens below the formatted document
MaxPrevTurns == 2  \* largest num_prev_turns handed to a call
MaxTurns == 3      \* longest replay handed to the utterance functions
MaxUtterances == 2 \* largest num_utterances

None == <<"None">>
NoCall == [status |-> "none"]

(***************************************************************************)
(* Generic helpers.                                                        *)
(***************************************************************************)
RECURSIVE SumSeq(_)
SumSeq(s) == IF s = <<>> THEN 0 ELSE Head(s) + SumSeq(Tail(s))

SeqsUpTo(S, n) == UNION {[1..k -> S] : k \in 0..n}

\* math.ceil(a / b) for b > 0
CeilDiv(a, b) == IF a >= 0 THEN (a + b - 1) \div b ELSE -((-a) \div b)

(***************************************************************************)
(* weblinx/utils/recs.py                                                   *)
(***************************************************************************)
\* variant of is_list_monotonically_increasing that compares the first two
\* items only
is_head_monotonically_increasing(lst) ==
    IF Len(lst) = 0 THEN "IndexError"
    ELSE IF Len(lst) > 1 /\ lst[2] < lst[1] THEN "False"
    ELSE "True"

\* "IndexError" for the empty list (lst[0]), otherwise the boolean returned
is_list_monotonically_increasing(lst) ==
    IF Len(lst) = 0 THEN "IndexError"
    ELSE IF \E i \in 1..(Len(lst) - 1) : lst[i + 1] < lst[i] THEN "False"
    ELSE "True"

(***************************************************************************)
(* reduce_list_of_lengths                                                  *)
(***************************************************************************)
\* value of `cumsum` after the loop body has run for the 1-based index i
RECURSIVE CumsumAt(_, _)
CumsumAt(L, i) ==
    IF i = 0 THEN 0
    ELSE CumsumAt(L, i - 1)
         + (L[i] - (IF i > 1 THEN L[i - 1] ELSE 0)) * (Len(L) - (i - 1))

\* 1-based index at which the loop stops: the first index whose cumsum
\* exceeds max_length, or the last index when the loop runs to its end
BreakIndex(L, m) ==
    IF \E i \in 1..Len(L) : CumsumAt(L, i) > m
    THEN CHOOSE i \in 1..Len(L) :
            /\ CumsumAt(L, i) > m
            /\ \A j \in 1..(i - 1) : CumsumAt(L, j) <= m
    ELSE Len(L)

LoopBroke(L, m) == \E i \in 1..Len(L) : CumsumAt(L, i) > m

\* variant of DiffPerRec that rounds the division down
DiffPerRecFloor(L, m) ==
    LET i == BreakIndex(L, m)
    IN  (CumsumAt(L, i) - m) \div (Len(L) - (i - 1))

\* ceil((cumsum - max_length) / num_remaining_records)
DiffPerRec(L, m) ==
    LET i == BreakIndex(L, m)
    IN  CeilDiv(CumsumAt(L, i) - m, Len(L) - (i - 1))

\* new_lengths after the second loop: the items before the break index keep
\* their length, the others get final_length = length - diff_per_rec
Flattened(L, m) ==
    LET i == BreakIndex(L, m)
        final_length == L[i] - DiffPerRec(L, m)
        kept == IF LoopBroke(L, m) THEN SubSeq(L, 1, i - 1) ELSE L
    IN  kept \o [j \in 1..(Len(L) - (i - 1)) |-> final_length]

\* variant of AddBack that gives the remainder to the first items
AddBackFirst(nl, diff) ==
    [j \in 1..Len(nl) |-> nl[j] + (IF j <= diff THEN 1 ELSE 0)]

\* for j in range(len(new_lengths) - diff, len(new_lengths)): new_lengths[j] += 1
AddBack(nl, diff) ==
    [j \in 1..Len(nl) |-> nl[j] + (IF j > Len(nl) - diff THEN 1 ELSE 0)]

\* variant of WithinMaxLength that leaves the equal total to the loop
BelowMaxLength(L, max) == SumSeq(L) < max

\* total_length <= max_length
WithinMaxLength(L, max) == SumSeq(L) <= max

reduce_list_of_lengths(L, m) ==
    LET mono == is_list_monotonically_increasing(L)
    IN  IF mono = "IndexError" THEN [status |-> "IndexError"]
        ELSE IF mono = "False" THEN [status |-> "AssertionError"]
        ELSE IF WithinMaxLength(L, m) THEN [status |-> "ok", lengths |-> L]
        ELSE IF m <= 0 THEN [status |-> "ok", lengths |-> [j \in 1..Len(L) |-> 0]]
        ELSE LET nl == Flattened(L, m)
                 diff == m - SumSeq(nl)
             IN  IF diff < 0 THEN [status |-> "ValueError"]
                 ELSE IF SumSeq(AddBack(nl, diff)) # m
                      THEN [status |-> "AssertionError"]
                 ELSE [status |-> "ok", lengths |-> AddBack(nl, diff)]

(***************************************************************************)
(* Local variables and lists.  Bind(e, F) is F applied to the value of e,  *)
(* computed once, as the Python code assigns a local variable and reads it *)
(* afterwards; List(s) is the sequence s with every item computed.         *)
(***************************************************************************)
Bind(e, F(_)) == CHOOSE r \in {F(x) : x \in {e}} : TRUE

List(s) == s \o <<>>

\* the members of a set of offsets S \subseteq 0..n, in ascending order
Ascend(set, n) ==
    Bind(set, LAMBDA S :
    Bind(List([q \in 1..(n + 1) |-> Cardinality({r \in S : r < q - 1})]), LAMBDA below :
        List([i \in 1..Cardinality(S) |-> CHOOSE p \in S : below[p + 1] = i - 1])))

(***************************************************************************)
(* The tokenizer (transformers.PreTrainedTokenizer) is handed in by the    *)
(* caller.  Two deterministic tokenizers stand for it:                     *)
(*   "word"   one token per maximal run of non-space characters, the       *)
(*            word-granular tokenizer whose counts add up across a splice; *)
(*   "piece"  greedy longest-match-first over the vocabulary Vocab plus    *)
(*            every single character, a subword tokenizer whose counts     *)
(*            change when two pieces of text are joined.                   *)
(* A tokenization is the offset mapping: one <<start, end>> pair per       *)
(* token, 0-based, end exclusive.  White space is never part of a token.   *)
(***************************************************************************)
Tokenizers == {"word", "piece"}
Alphabet == {"a", ".", " "}
Vocab == {<<"a", ".">>, <<".", ".", ".">>}
WhiteSpace == {" ", "\n"}

\* the offsets at which a maximal run of non-space characters starts, in order
WordStarts(t) ==
    Ascend({p \in 0..(Len(t) - 1) :
               t[p + 1] \notin WhiteSpace /\ (p = 0 \/ t[p] \in WhiteSpace)},
           Len(t))

\* the end (exclusive) of the run of non-space characters that starts at p
WordEnd(t, p) ==
    CHOOSE q \in (p + 1)..Len(t) :
        /\ q = Len(t) \/ t[q + 1] \in WhiteSpace
        /\ \A k \in (p + 1)..(q - 1) : t[k + 1] \notin WhiteSpace

\* the end of the longest vocabulary entry at p, or of the single character
PieceEnd(t, p) ==
    LET fits == {l \in {Len(v) : v \in Vocab} :
                    p + l <= Len(t) /\ SubSeq(t, p + 1, p + l) \in Vocab}
    IN  IF fits = {} THEN p + 1
        ELSE p + (CHOOSE l \in fits : \A k \in fits : k <= l)

\* the pieces of the run of non-space characters [p, q)
RECURSIVE PiecesFrom(_, _, _)
PiecesFrom(t, p, q) ==
    IF p >= q THEN <<>>
    ELSE Bind(PieceEnd(t, p), LAMBDA e : <<<<p, e>>>> \o PiecesFrom(t, e, q))

RECURSIVE OffsetsFrom(_, _, _, _)
OffsetsFrom(tk, t, w, i) ==
    IF i > Len(w) THEN <<>>
    ELSE (IF tk = "word" THEN <<<<w[i], WordEnd(t, w[i])>>>>
          ELSE PiecesFrom(t, w[i], WordEnd(t, w[i])))
         \o OffsetsFrom(tk, t, w, i + 1)

\* tokenizer(text, add_special_tokens=False, return_offsets_mapping=True)
Tokenize(tk, text_in) ==
    Bind(text_in, LAMBDA t :
    Bind(WordStarts(t), LAMBDA w : OffsetsFrom(tk, t, w, 1)))

\* len(tokenizer.tokenize(text, add_special_tokens=False))
TokenCount(tk, t) == Len(Tokenize(tk, t))

(***************************************************************************)
(* get_truncation_offsets                                                  *)
(***************************************************************************)
\* Python's seq[i]: negative indices count from the end
InRange(seq, i) == -Len(seq) <= i /\ i < Len(seq)
PyIndex(seq, i) == IF i >= 0 THEN seq[i + 1] ELSE seq[Len(seq) + i + 1]

\* variant of WindowLeft that starts the window at the center
WindowLeftAtCenter(length, num_tokens_to_remove) == length \div 2

\* left = center - (num_tokens_to_remove // 2), center = length // 2
WindowLeft(length, num_tokens_to_remove) ==
    (length \div 2) - (num_tokens_to_remove \div 2)

WindowRight(length, num_tokens_to_remove) ==
    WindowLeft(length, num_tokens_to_remove) + num_tokens_to_remove

get_truncation_offsets(tokens, length, num_tokens_to_remove) ==
    LET left == WindowLeft(length, num_tokens_to_remove)
        right == WindowRight(length, num_tokens_to_remove)
    IN  IF InRange(tokens, left) /\ InRange(tokens, right - 1)
        THEN [status |-> "ok",
              start_offset |-> PyIndex(tokens, left)[1],
              end_offset |-> PyIndex(tokens, right - 1)[2]]
        ELSE [status |-> "IndexError"]

(***************************************************************************)
(* truncate_text_at_center                                                 *)
(***************************************************************************)
\* init_text[:start_offset] + middle + init_text[end_offset:]
Splice(init_text, start_offset, middle, end_offset) ==
    SubSeq(init_text, 1, start_offset) \o middle
        \o SubSeq(init_text, end_offset + 1, Len(init_text))

\* the splice for a window of num_tokens_to_remove tokens
SpliceFor(tk, init_text, ell, n) ==
    Bind(Tokenize(tk, init_text), LAMBDA tokens :
    Bind(get_truncation_offsets(tokens, Len(tokens), n), LAMBDA off :
        IF off.status # "ok" THEN [status |-> "IndexError"]
        ELSE [status |-> "ok",
              text |-> Splice(init_text, off.start_offset, ell, off.end_offset),
              start_offset |-> off.start_offset,
              end_offset |-> off.end_offset]))

\* the `while not is_smaller_or_equal` loop, entered with num_tokens_to_remove = n
RECURSIVE IterativeReduction(_, _, _, _, _)
IterativeReduction(tk, init_text, ell, max, n) ==
    Bind(SpliceFor(tk, init_text, ell, n + 1), LAMBDA sp :
        IF sp.status # "ok" THEN sp
        ELSE IF TokenCount(tk, sp.text) <= max THEN sp
        ELSE IterativeReduction(tk, init_text, ell, max, n + 1))

\* lines 249-266: the dictionary returned for a spliced text, or the
\* assertion error of strict mode
Finish(tk, init_text, max, m, sp) ==
    Bind(Tokenize(tk, sp.text), LAMBDA tokens :
        LET retried == Splice(init_text, sp.start_offset, <<>>, sp.end_offset)
            is_smaller_or_equal ==
                IF m.retry /\ Len(tokens) > max
                THEN TokenCount(tk, retried) <= max
                ELSE Len(tokens) <= max
        IN  IF ~(m.strict \/ m.retry) THEN [status |-> "ok", value |-> [text |-> sp.text]]
            ELSE IF m.strict /\ ~is_smaller_or_equal
                 THEN [status |-> "AssertionError"]
            ELSE [status |-> "ok", value |-> [text |-> sp.text, tokens |-> tokens]])

\* variant of EarlyReturn that keeps the ellipsis when the budget is below its cost
EarlyReturnKeepsEllipsis(t, ell, length, max, ellipsis_length) ==
    IF length <= max
    THEN [status |-> "ok", value |-> [text |-> t, length |-> length]]
    ELSE IF max <= ellipsis_length
    THEN [status |-> "ok", value |-> [text |-> ell, length |-> ellipsis_length]]
    ELSE [status |-> "splice"]

\* variant of EarlyReturn that tests the ellipsis budget before the length
EarlyReturnEllipsisFirst(t, ell, length, max, ellipsis_length) ==
    IF max < ellipsis_length
    THEN [status |-> "ok", value |-> [text |-> None, length |-> 0]]
    ELSE IF max = ellipsis_length
    THEN [status |-> "ok", value |-> [text |-> ell, length |-> ellipsis_length]]
    ELSE IF length <= max
    THEN [status |-> "ok", value |-> [text |-> t, length |-> length]]
    ELSE [status |-> "splice"]

\* lines 222-229: the three results that need no splice
EarlyReturn(t, ell, length, max, ellipsis_length) ==
    IF length <= max
    THEN [status |-> "ok", value |-> [text |-> t, length |-> length]]
    ELSE IF max < ellipsis_length
    THEN [status |-> "ok", value |-> [text |-> None, length |-> 0]]
    ELSE IF max = ellipsis_length
    THEN [status |-> "ok", value |-> [text |-> ell, length |-> ellipsis_length]]
    ELSE [status |-> "splice"]

\* num_tokens_to_remove = length - (max_tokens - ellipsis_length)
NumTokensToRemove(length, max, ellipsis_length) == length - (max - ellipsis_length)

\* lines 231-266: the splice, the iterative loop and the result
SpliceAndFinish(t, tk, max, ell, m, num_tokens_to_remove) ==
    Bind(SpliceFor(tk, t, ell, num_tokens_to_remove), LAMBDA first :
    Bind(IF first.status = "ok" /\ m.iterative
         THEN IterativeReduction(tk, t, ell, max, num_tokens_to_remove)
         ELSE first, LAMBDA sp :
        IF sp.status # "ok" THEN [status |-> "IndexError"]
        ELSE Finish(tk, t, max, m, sp)))

\* the call with ellipsis_length given (lines 219-266)
truncate_text_with_ellipsis_length(text_in, tk, max_in, ell, ellipsis_length, m) ==
    Bind(text_in, LAMBDA t :
    Bind(max_in, LAMBDA max :
    Bind(TokenCount(tk, t), LAMBDA length :
    Bind(EarlyReturn(t, ell, length, max, ellipsis_length), LAMBDA early :
        IF early.status # "splice" THEN early
        ELSE Bind(NumTokensToRemove(length, max, ellipsis_length), LAMBDA n :
                 SpliceAndFinish(t, tk, max, ell, m, n))))))

\* the call with ellipsis_length left out: it is the token count of ellipsis
truncate_text_at_center(t, tk, max, ell, m) ==
    Bind(TokenCount(tk, ell), LAMBDA ellipsis_length :
        truncate_text_with_ellipsis_length(t, tk, max, ell, ellipsis_length, m))

(***************************************************************************)
(* Specification of a call of truncate_text_at_center: any text over the   *)
(* alphabet, any budget, either ellipsis, any combination of the flags     *)
(* allow_iterative_reduction, assert_max_tokens (strict) and               *)
(* allow_retry_without_ellipsis (retry), either tokenizer.                 *)
(***************************************************************************)
Ellipses == {<<".", ".", ".">>, <<".", ".">>}
\* five words, as "The quick brown fox jumps"
FiveWords == <<"a", " ", "a", " ", "a", " ", "a", " ", "a">>
Modes == [iterative : BOOLEAN, strict : BOOLEAN, retry : BOOLEAN]

(***************************************************************************)
(* Helpers shared by the structured truncation passes.                     *)
(***************************************************************************)
DefaultEllipsis == <<".", ".", ".">>

\* the flags truncate_text_at_center runs with when a pass or a driver calls
\* it: assert_max_tokens and allow_retry_without_ellipsis keep their defaults
PassFlags(allow_iterative_reduction) ==
    [iterative |-> allow_iterative_reduction, strict |-> FALSE, retry |-> TRUE]

RECURSIVE ConcatFrom(_, _)
ConcatFrom(ss, i) == IF i > Len(ss) THEN <<>> ELSE ss[i] \o ConcatFrom(ss, i + 1)

\* "".join(ss)
Concat(ss) == Bind(List(ss), LAMBDA parts : ConcatFrom(parts, 1))

RECURSIVE JoinFrom(_, _, _)
JoinFrom(separator, ss, i) ==
    IF i > Len(ss) THEN <<>>
    ELSE IF i = Len(ss) THEN ss[i]
    ELSE ss[i] \o separator \o JoinFrom(separator, ss, i + 1)

\* sep.join(ss)
Join(separator, ss) == Bind(List(ss), LAMBDA parts : JoinFrom(separator, parts, 1))

\* str.strip()
Strip(text_in) ==
    Bind(text_in, LAMBDA t :
        IF \A i \in 1..Len(t) : t[i] \in WhiteSpace THEN <<>>
        ELSE SubSeq(t,
                 CHOOSE i \in 1..Len(t) :
                     t[i] \notin WhiteSpace /\ \A j \in 1..(i - 1) : t[j] \in WhiteSpace,
                 CHOOSE i \in 1..Len(t) :
                     t[i] \notin WhiteSpace /\ \A j \in (i + 1)..Len(t) : t[j] \in WhiteSpace))

\* re.sub(r"\s+", " ", t): of a run of white space only the last character
\* is kept, as one space
CollapseSpaces(text_in) ==
    Bind(text_in, LAMBDA t :
    Bind(Ascend({i \in 1..Len(t) :
                    t[i] \notin WhiteSpace \/ i = Len(t) \/ t[i + 1] \notin WhiteSpace},
                Len(t)), LAMBDA keep :
        List([k \in 1..Len(keep) |->
                 IF t[keep[k]] \in WhiteSpace THEN " " ELSE t[keep[k]]])))

\* str.replace("\n", " ")
NewlinesToSpaces(text_in) ==
    Bind(text_in, LAMBDA t :
        List([i \in 1..Len(t) |-> IF t[i] = "\n" THEN " " ELSE t[i]]))

\* sorted(records, key=lambda r: r["length"]): the record indices in
\* ascending order of length, ties in their original order
SortedOrder(lens) ==
    List([k \in 1..Len(lens) |->
            CHOOSE i \in 1..Len(lens) :
                Cardinality({j \in 1..Len(lens) :
                                lens[j] < lens[i] \/ (lens[j] = lens[i] /\ j < i)}) = k - 1])

\* lengths_reduced, given back in the original order of the records:
\* reduce_list_of_lengths(lengths_orig, sum(lengths_orig) - num_tokens_to_remove)
ReducedLengths(lens, num_tokens_to_remove) ==
    Bind(SortedOrder(lens), LAMBDA order :
    Bind(List([k \in 1..Len(lens) |-> lens[order[k]]]), LAMBDA lengths_orig :
    Bind(SumSeq(lengths_orig) - num_tokens_to_remove, LAMBDA max_total_length :
    Bind(reduce_list_of_lengths(lengths_orig, max_total_length), LAMBDA red :
        IF red.status # "ok" THEN red
        ELSE [status |-> "ok",
              lengths |-> List([i \in 1..Len(lens) |->
                                  red.lengths[CHOOSE k \in 1..Len(lens) : order[k] = i]])]))))

\* the exception of the first record, in sorted order, whose write-back raises
FirstFailure(order, wb) ==
    wb[order[CHOOSE k \in 1..Len(order) :
                /\ wb[order[k]].status # "ok"
                /\ \A j \in 1..(k - 1) : wb[order[j]].status = "ok"]].status

(***************************************************************************)
(* DOM tree.  A tree is one element <div> with a text and attributes:      *)
(*   [text |-> text or None, attrib |-> sequence of <<key, value>>]        *)
(***************************************************************************)
Postfix ==
    <<"\n", "A", "b", "o", "v", "e", " ", "a", "r", "e", " ", "t", "h", "e", " ",
      "p", "r", "u", "n", "e", "d", " ", "H", "T", "M", "L", " ",
      "c", "o", "n", "t", "e", "n", "t", "s", " ", "o", "f", " ", "t", "h", "e", " ",
      "p", "a", "g", "e", ".">>

KeyChars(k) == IF k = "id" THEN <<"i", "d">> ELSE <<"c", "l", "a", "s", "s">>

\* get_tree_repr_simple: lxml writes <div k="v" ...>text</div>; the closing
\* tag becomes ")", the opening tag "(div k="v" ..." without its ">", white
\* space is collapsed and stripped, the postfix is appended
get_tree_repr_simple(tree) ==
    LET attrs == Concat([i \in 1..Len(tree.attrib) |->
                    <<" ">> \o KeyChars(tree.attrib[i][1]) \o <<"=", "\"">>
                        \o tree.attrib[i][2] \o <<"\"">>])
        body == IF tree.text = None THEN <<>> ELSE tree.text
    IN  Strip(CollapseSpaces(<<"(", "d", "i", "v">> \o attrs \o body \o <<")">>))
            \o Postfix

\* build_records_of_tokens_for_dom_tree, before sorting: the text record of
\* the node, then one record per attribute
DomRecords(tree) ==
    <<[type |-> "text", key |-> "",
       text |-> IF tree.text = None THEN <<>> ELSE Strip(tree.text)]>>
    \o [i \in 1..Len(tree.attrib) |->
          [type |-> "attrib", key |-> tree.attrib[i][1], text |-> tree.attrib[i][2]]]

\* lines 383-426 for one record: what is written back.  Writing None to an
\* lxml attribute raises TypeError.
DomWriteBack(r, length, red_length, tk, ellipsis_length, remove_when_none, iterative) ==
    IF red_length >= length THEN [status |-> "ok", op |-> "keep"]
    ELSE IF red_length = 0
    THEN IF r.type = "text" THEN [status |-> "ok", op |-> "set", text |-> None]
         ELSE [status |-> "TypeError"]
    ELSE Bind(truncate_text_with_ellipsis_length(
                  r.text, tk, red_length, DefaultEllipsis, ellipsis_length,
                  PassFlags(iterative)), LAMBDA tr :
             IF tr.status # "ok" THEN [status |-> tr.status]
             ELSE IF r.type = "text"
                  THEN [status |-> "ok", op |-> "set", text |-> tr.value.text]
             ELSE IF remove_when_none /\ tr.value.text = None
                  THEN [status |-> "ok", op |-> "pop"]
             ELSE IF tr.value.text = None THEN [status |-> "TypeError"]
             ELSE [status |-> "ok", op |-> "set", text |-> tr.value.text])

RECURSIVE KeptAttribs(_, _, _)
KeptAttribs(attrib, wb, i) ==
    IF i > Len(attrib) THEN <<>>
    ELSE (IF wb[i + 1].op = "pop" THEN <<>>
          ELSE IF wb[i + 1].op = "set" THEN <<<<attrib[i][1], wb[i + 1].text>>>>
          ELSE <<attrib[i]>>)
         \o KeptAttribs(attrib, wb, i + 1)

\* the tree once the write-backs wb have been applied to its records
DomTreeAfter(tree, wb) ==
    [text |-> IF wb[1].op = "set" THEN wb[1].text ELSE tree.text,
     attrib |-> KeptAttribs(tree.attrib, wb, 1)]

\* the write-backs that were applied before the first one, in sorted order,
\* that raises: the records after it are left as they were
AppliedBeforeFailure(order, wb) ==
    Bind(CHOOSE k \in 1..Len(order) :
             /\ wb[order[k]].status # "ok"
             /\ \A j \in 1..(k - 1) : wb[order[j]].status = "ok", LAMBDA failing :
        List([i \in 1..Len(wb) |->
                IF \E j \in 1..(failing - 1) : order[j] = i THEN wb[i]
                ELSE [status |-> "ok", op |-> "keep"]]))

\* lines 383-428, once lengths_reduced is known.  `tree` is the tree the
\* loop has written to, also when a write-back raises.
DomWriteBackAll(tree, tk, records, lens, red, ellipsis_length, remove_when_none, iterative) ==
    Bind(List([i \in 1..Len(records) |->
                 DomWriteBack(records[i], lens[i], red.lengths[i], tk,
                              ellipsis_length, remove_when_none, iterative)]), LAMBDA wb :
        IF \E i \in 1..Len(records) : wb[i].status # "ok"
        THEN [status |-> FirstFailure(SortedOrder(lens), wb),
              tree |-> DomTreeAfter(tree, AppliedBeforeFailure(SortedOrder(lens), wb))]
        ELSE [status |-> "ok", tree |-> DomTreeAfter(tree, wb)])

truncate_dom_tree(tree, tk, num_tokens_to_remove, ell, remove_when_none, iterative) ==
    Bind(TokenCount(tk, ell), LAMBDA ellipsis_length :
    Bind(DomRecords(tree), LAMBDA records :
    Bind(List([i \in 1..Len(records) |-> TokenCount(tk, records[i].text)]), LAMBDA lens :
    Bind(ReducedLengths(lens, num_tokens_to_remove), LAMBDA red :
        IF red.status # "ok" THEN [status |-> red.status, tree |-> tree]
        ELSE DomWriteBackAll(tree, tk, records, lens, red, ellipsis_length,
                             remove_when_none, iterative)))))

(***************************************************************************)
(* Candidates.  cands_turn is a sequence of candidates                     *)
(*   [rank |-> digit, elem_dict |-> [tag |-> text, text |-> text or None], *)
(*    doc |-> text or None]                                                *)
(***************************************************************************)
TagKey == <<"[", "[", "t", "a", "g", "]", "]", " ">>
TextKey == <<"[", "[", "t", "e", "x", "t", "]", "]", " ">>

\* convert_elem_dict_to_str(elem_dict, remove_empty=True)
convert_elem_dict_to_str(elem_dict) ==
    (IF elem_dict.tag \in {None, <<>>} THEN <<>>
     ELSE TagKey \o elem_dict.tag \o <<"\n">>)
    \o (IF elem_dict.text \in {None, <<>>} THEN <<>>
        ELSE TextKey \o elem_dict.text \o <<"\n">>)

\* format_candidates(candidates, max_char_len=None): "({rank}) {doc}\n" per
\* candidate; requires every doc to be a string
format_candidates(cands) ==
    Concat([i \in 1..Len(cands) |->
              <<"(", cands[i].rank, ")", " ">>
                  \o NewlinesToSpaces(cands[i].doc) \o <<"\n">>])

\* variant of protected_elem_keys that protects no key
NoProtectedKeys == {}

\* multi_attempt_truncate_cands_turn: protected_elem_keys=("tag", "bbox")
protected_elem_keys == {"tag", "bbox"}

\* the keys of an elem_dict, in the order of cand["elem_dict"].items()
ElemKeys == <<"tag", "text">>

\* lines 589-616: one record per candidate and key that is neither protected
\* nor null, in the order of the two loops
CandRecords(cands) ==
    LET RECURSIVE From(_, _)
        From(t, k) ==
            IF t > Len(cands) THEN <<>>
            ELSE IF k > Len(ElemKeys) THEN From(t + 1, 1)
            ELSE (IF ElemKeys[k] \in protected_elem_keys
                     \/ cands[t].elem_dict[ElemKeys[k]] = None
                  THEN <<>>
                  ELSE <<[index |-> t, key |-> ElemKeys[k],
                          value |-> cands[t].elem_dict[ElemKeys[k]]]>>)
                 \o From(t, k + 1)
    IN  From(1, 1)

\* the candidates when truncate_text_at_center raises for a record of
\* Raising: the records before it, in sorted order, have been written to
\* their elem_dict and no doc has been rebuilt
CandsBeforeFailure(cands, records, tr, lens, red, order, Raising) ==
    Bind(CHOOSE k \in 1..Len(order) :
             /\ order[k] \in Raising
             /\ \A j \in 1..(k - 1) : order[j] \notin Raising, LAMBDA failing :
        LET Written(i, key) ==
                {r \in 1..Len(records) : /\ records[r].index = i
                                         /\ records[r].key = key
                                         /\ red.lengths[r] < lens[r]
                                         /\ \E j \in 1..(failing - 1) : order[j] = r}
            NewValue(i, key) ==
                IF Written(i, key) # {}
                THEN tr[CHOOSE r \in Written(i, key) : TRUE].value.text
                ELSE cands[i].elem_dict[key]
        IN  List([i \in 1..Len(cands) |->
                    [cands[i] EXCEPT !.elem_dict =
                        [tag |-> NewValue(i, "tag"), text |-> NewValue(i, "text")]]]))

\* lines 626-647, once lengths_reduced is known.  `cands` is the list the
\* loop has written to, also when a truncation raises.
CandsWriteBack(cands, tk, records, lens, red, iterative) ==
    Bind(List([r \in 1..Len(records) |->
                 truncate_text_at_center(records[r].value, tk,
                     red.lengths[r], DefaultEllipsis, PassFlags(iterative))]), LAMBDA tr :
        LET Written(i, key) ==
                {r \in 1..Len(records) : /\ records[r].index = i
                                         /\ records[r].key = key
                                         /\ red.lengths[r] < lens[r]}
            NewValue(i, key) ==
                IF Written(i, key) # {}
                THEN tr[CHOOSE r \in Written(i, key) : TRUE].value.text
                ELSE cands[i].elem_dict[key]
            NewDict(i) == [tag |-> NewValue(i, "tag"), text |-> NewValue(i, "text")]
            Raising == {r \in 1..Len(records) :
                           red.lengths[r] < lens[r] /\ tr[r].status # "ok"}
        IN  IF Raising # {}
            THEN [status |-> "IndexError",
                  cands |-> CandsBeforeFailure(cands, records, tr, lens, red,
                                               SortedOrder(lens), Raising)]
            ELSE [status |-> "ok",
                  cands |-> List([i \in 1..Len(cands) |->
                               Bind(NewDict(i), LAMBDA d :
                                   [rank |-> cands[i].rank,
                                    elem_dict |-> d,
                                    doc |-> convert_elem_dict_to_str(d)])])])

\* truncate_cands_turn with num_tokens_to_remove > 0
truncate_cands_turn(cands, tk, num_tokens_to_remove, iterative) ==
    Bind(CandRecords(cands), LAMBDA records :
    Bind(List([r \in 1..Len(records) |-> TokenCount(tk, records[r].value)]),
         LAMBDA lens :
    Bind(ReducedLengths(lens, num_tokens_to_remove), LAMBDA red :
        IF red.status # "ok" THEN [status |-> red.status, cands |-> cands]
        ELSE CandsWriteBack(cands, tk, records, lens, red, iterative))))

\* lines 686-709: the direct truncation of every cand["doc"].  `stale` is
\* len(cands_turn_tokens), the measurement taken before the last pass.
RECURSIVE CandsFallbackFrom(_, _, _, _, _, _)
CandsFallbackFrom(cands, tk, i, num_tokens_remaining, sep_len, iterative) ==
    IF i > Len(cands) THEN [status |-> "ok", cands |-> cands]
    ELSE Bind(truncate_text_at_center(cands[i].doc, tk,
                  CeilDiv(num_tokens_remaining, Len(cands) - (i - 1)),
                  DefaultEllipsis, PassFlags(iterative)), LAMBDA tr :
             IF tr.status # "ok" THEN [status |-> tr.status, cands |-> cands]
             ELSE Bind([cands EXCEPT ![i].doc = tr.value.text], LAMBDA new_cands :
                  IF tr.value.text = None
                  THEN [status |-> "TypeError", cands |-> new_cands]
                  ELSE
                  Bind(num_tokens_remaining - (TokenCount(tk, tr.value.text) + sep_len),
                       LAMBDA remaining :
                      CandsFallbackFrom(new_cands, tk, i + 1, remaining, sep_len,
                                        iterative))))

CandsFallback(cands, tk, max, stale, iterative) ==
    LET tokens_no_format ==
            TokenCount(tk, Join(<<" ">>, [i \in 1..Len(cands) |-> cands[i].doc]))
    IN  Bind(CeilDiv(stale - tokens_no_format, Len(cands)), LAMBDA sep_len :
            CandsFallbackFrom(cands, tk, 1, max, sep_len, iterative))

(***************************************************************************)
(* Previous turns.  The replay before `turn` is a sequence of the uid      *)
(* values of its click turns; format_intent gives {intent: click, uid: v}  *)
(* and format_output_dict_fn writes it click(uid="v").                     *)
(***************************************************************************)
TurnSep == <<" ", ";", " ">>

format_output_dictionary(uid) ==
    <<"c", "l", "i", "c", "k", "(", "u", "i", "d", "=", "\"">> \o uid \o <<"\"", ")">>

\* what format_prev_turns_truncated gives for the values of prev_turns_lst:
\* `text` is the turns joined by " ; ", returned when turn_sep is a string,
\* `list` the formatted turns, returned when turn_sep is None
PrevFormatted(values) ==
    Bind(List([i \in 1..Len(values) |-> format_output_dictionary(values[i])]),
         LAMBDA formatted :
        [status |-> "ok", values |-> values, list |-> formatted,
         text |-> Join(TurnSep, formatted)])

\* lines 304-340, once lengths_reduced is known: the values are truncated with
\* allow_iterative_reduction at its default and the turns are formatted again
PrevWriteBack(uids, tk, lens, red) ==
    Bind(List([i \in 1..Len(uids) |->
                 truncate_text_at_center(uids[i], tk, red.lengths[i],
                     DefaultEllipsis, PassFlags(FALSE))]), LAMBDA tr :
        LET NewUid(i) ==
                IF red.lengths[i] >= lens[i] THEN uids[i]
                ELSE IF tr[i].value.text = None THEN <<>>
                ELSE tr[i].value.text
        IN  PrevFormatted(List([i \in 1..Len(uids) |-> NewUid(i)])))

\* format_prev_turns_truncated, for either value of turn_sep
format_prev_turns_truncated(uids, tk, num_tokens_to_remove) ==
    IF num_tokens_to_remove <= 0
    THEN PrevFormatted(uids)
    ELSE Bind(List([i \in 1..Len(uids) |-> TokenCount(tk, uids[i])]), LAMBDA lens :
         Bind(ReducedLengths(lens, num_tokens_to_remove), LAMBDA red :
             IF red.status # "ok" THEN [status |-> red.status]
             ELSE PrevWriteBack(uids, tk, lens, red)))

\* multi_attempt_format_prev_turns_truncated, lines 441-453: the loop
\* `for i in range(num_prev_turns)` over the list prev_turns_formatted,
\* entered at the 0-based index i
RECURSIVE PrevListFallbackFrom(_, _, _, _, _, _, _)
PrevListFallbackFrom(lst, tk, i, num_prev, num_tokens_remaining, num_turn_sep_tokens, iterative) ==
    IF i >= num_prev THEN [status |-> "ok", list |-> lst]
    ELSE IF ~InRange(lst, i) THEN [status |-> "IndexError"]
    ELSE Bind(truncate_text_at_center(PyIndex(lst, i), tk,
                  CeilDiv(num_tokens_remaining, num_prev - i),
                  DefaultEllipsis, PassFlags(iterative)), LAMBDA tr :
             IF tr.status # "ok" THEN [status |-> tr.status]
             ELSE IF tr.value.text = None THEN [status |-> "TypeError"]
             ELSE Bind([lst EXCEPT ![i + 1] = tr.value.text], LAMBDA new_lst :
                  Bind(num_tokens_remaining
                           - (TokenCount(tk, tr.value.text) + num_turn_sep_tokens),
                       LAMBDA remaining :
                      PrevListFallbackFrom(new_lst, tk, i + 1, num_prev, remaining,
                                           num_turn_sep_tokens, iterative))))

\* lines 435-453: the direct truncation, of the text or of every turn
PrevFallbackResult(formatted, tk, max, separator, num_prev, iterative) ==
    IF separator # None
    THEN Bind(truncate_text_at_center(formatted, tk, max, DefaultEllipsis,
                                      PassFlags(iterative)), LAMBDA tr :
             IF tr.status # "ok" THEN [status |-> tr.status]
             ELSE [status |-> "ok", text |-> tr.value.text])
    ELSE PrevListFallbackFrom(formatted, tk, 0, num_prev, max,
                              TokenCount(tk, TurnSep), iterative)

(***************************************************************************)
(* The multi-attempt drivers, one loop iteration per step.                 *)
(***************************************************************************)
\* variant of DomWithinBudget that asks for one token to spare
DomStrictlyWithinBudget(num_tokens, max) == num_tokens < max

\* multi_attempt_truncate_dom_tree: num_tokens <= max_tokens
DomWithinBudget(num_tokens, max) == num_tokens <= max

\* multi_attempt_truncate_cands_turn: num_tokens_to_remove <= 0
CandsWithinBudget(num_tokens, max) == num_tokens - max <= 0

\* multi_attempt_format_prev_turns_truncated: len(prev_turns_tokens) <= max_tokens
PrevWithinBudget(num_tokens, max) == num_tokens <= max

Raise(exception) ==
    /\ result' = [status |-> exception]
    /\ pc' = "raised"

\* variant of copy_tree that writes to the caller's tree
NoCopy == FALSE

\* multi_attempt_truncate_dom_tree: copy_tree=True, handed to truncate_dom_tree
\* as `copy`
copy_tree == TRUE

\* truncate_cands_turn: copy=True, which its driver leaves at the default
copy == TRUE

prevArgs == <<turn_sep, num_prev_turns, prev_turns_lst>>

\* multi_attempt_truncate_dom_tree, lines 451-471: one iteration of the loop.
\* Without the deep copy the writes of truncate_dom_tree land in the object
\* the driver holds, which is the caller's tree as long as it is shared.
DomAttempt ==
    /\ pc = "run" /\ driver = "dom"
    /\ num_attempts < max_attempts
    /\ \E tree_repr \in {get_tree_repr_simple(doc)} :
       \E num_tokens \in {TokenCount(tokenizer, tree_repr)} :
           /\ measured' = num_tokens
           /\ IF DomWithinBudget(num_tokens, max_tokens)
              THEN /\ result' = [status |-> "ok", dom_tree |-> doc, tree_repr |-> tree_repr]
                   /\ pc' = "returned"
                   /\ UNCHANGED <<input, doc, shared, passes, num_attempts>>
              ELSE /\ passes' = passes + 1
                   /\ num_attempts' = num_attempts + 1
                   /\ \E t \in {truncate_dom_tree(doc, tokenizer, num_tokens - max_tokens,
                                    ellipsis, num_attempts > 1, mode.iterative)} :
                          /\ input' = (IF shared /\ ~copy_tree THEN t.tree ELSE input)
                          /\ IF t.status = "ok"
                             THEN /\ doc' = t.tree
                                  /\ shared' = (shared /\ ~copy_tree)
                                  /\ UNCHANGED <<pc, result>>
                             ELSE /\ Raise(t.status)
                                  /\ doc' = (IF copy_tree THEN doc ELSE t.tree)
                                  /\ UNCHANGED shared
    /\ UNCHANGED <<promptVars, reducerVars, truncatorVars, driver, max_attempts, warned, prevArgs>>

\* lines 472-492: the warning and the direct truncation of tree_repr
DomFallback ==
    /\ pc = "run" /\ driver = "dom"
    /\ num_attempts = max_attempts
    /\ warned' = TRUE
    /\ \E tr \in {truncate_text_at_center(get_tree_repr_simple(doc), tokenizer,
                      max_tokens, DefaultEllipsis, PassFlags(mode.iterative))} :
           IF tr.status = "ok"
           THEN /\ result' = [status |-> "ok", dom_tree |-> doc, tree_repr |-> tr.value.text]
                /\ pc' = "returned"
           ELSE Raise(tr.status)
    /\ UNCHANGED <<promptVars, reducerVars, truncatorVars, driver, input, doc, shared, max_attempts,
                   num_attempts, measured, passes, prevArgs>>

\* multi_attempt_truncate_cands_turn, lines 666-681: one iteration of
\* `for _ in range(max_attempts + 1)`
CandsAttempt ==
    /\ pc = "run" /\ driver = "cands"
    /\ num_attempts < max_attempts + 1
    /\ \E num_tokens \in {TokenCount(tokenizer, format_candidates(doc))} :
           /\ measured' = num_tokens
           /\ IF CandsWithinBudget(num_tokens, max_tokens)
              THEN /\ result' = [status |-> "ok", cands_turn |-> doc]
                   /\ pc' = "returned"
                   /\ UNCHANGED <<input, doc, shared, passes, num_attempts>>
              ELSE /\ passes' = passes + 1
                   /\ num_attempts' = num_attempts + 1
                   /\ \E t \in {truncate_cands_turn(doc, tokenizer,
                                    num_tokens - max_tokens, mode.iterative)} :
                          /\ input' = (IF shared /\ ~copy THEN t.cands ELSE input)
                          /\ IF t.status = "ok"
                             THEN /\ doc' = t.cands
                                  /\ shared' = (shared /\ ~copy)
                                  /\ UNCHANGED <<pc, result>>
                             ELSE /\ Raise(t.status)
                                  /\ doc' = (IF copy THEN doc ELSE t.cands)
                                  /\ UNCHANGED shared
    /\ UNCHANGED <<promptVars, reducerVars, truncatorVars, driver, max_attempts, warned, prevArgs>>

\* lines 683-709: the warning and the direct truncation of every doc, written
\* to the list the driver holds
CandsFallbackStep ==
    /\ pc = "run" /\ driver = "cands"
    /\ num_attempts = max_attempts + 1
    /\ warned' = TRUE
    /\ \E f \in {CandsFallback(doc, tokenizer, max_tokens, measured, mode.iterative)} :
           /\ doc' = f.cands
           /\ input' = (IF shared THEN f.cands ELSE input)
           /\ IF f.status = "ok"
              THEN /\ result' = [status |-> "ok", cands_turn |-> f.cands]
                   /\ pc' = "returned"
              ELSE Raise(f.status)
    /\ UNCHANGED <<promptVars, reducerVars, truncatorVars, driver, shared, max_attempts,
                   num_attempts, measured, passes, prevArgs>>

\* multi_attempt_format_prev_turns_truncated, lines 381-393: the first
\* measurement, of the untruncated turns joined by " ; "
PrevStart ==
    /\ pc = "start" /\ driver = "prev"
    /\ measured' = TokenCount(tokenizer, format_prev_turns_truncated(input, tokenizer, 0).text)
    /\ pc' = "run"
    /\ UNCHANGED <<promptVars, reducerVars, truncatorVars, driver, input, doc, shared, max_attempts,
                   num_attempts, passes, warned, result, prevArgs>>

\* lines 395-418: one iteration of the loop; every pass starts again from
\* the turns of the replay.  A list is measured joined by " ; ".
PrevAttempt ==
    /\ pc = "run" /\ driver = "prev"
    /\ num_attempts < max_attempts
    /\ passes' = IF measured - max_tokens > 0 THEN passes + 1 ELSE passes
    /\ num_attempts' = num_attempts + 1
    /\ \E f \in {format_prev_turns_truncated(input, tokenizer, measured - max_tokens)} :
           IF f.status # "ok"
           THEN Raise(f.status) /\ UNCHANGED <<doc, measured, prev_turns_lst>>
           ELSE \E num_tokens \in {TokenCount(tokenizer, f.text)} :
                    /\ doc' = (IF turn_sep = None THEN f.list ELSE f.text)
                    /\ prev_turns_lst' = f.values
                    /\ measured' = num_tokens
                    /\ IF PrevWithinBudget(num_tokens, max_tokens)
                       THEN /\ result' = (IF turn_sep = None
                                          THEN [status |-> "ok", list |-> f.list]
                                          ELSE [status |-> "ok", text |-> f.text])
                            /\ pc' = "returned"
                       ELSE UNCHANGED <<pc, result>>
    /\ UNCHANGED <<promptVars, reducerVars, truncatorVars, driver, input, shared, max_attempts,
                   warned, turn_sep, num_prev_turns>>

\* lines 420-455: the warning and the direct truncation, of the text or of
\* the first num_prev_turns entries of the list
PrevFallback ==
    /\ pc = "run" /\ driver = "prev"
    /\ num_attempts = max_attempts
    /\ warned' = TRUE
    /\ \E f \in {PrevFallbackResult(doc, tokenizer, max_tokens, turn_sep,
                                    num_prev_turns, mode.iterative)} :
           IF f.status = "ok"
           THEN /\ result' = f
                /\ pc' = "returned"
           ELSE Raise(f.status)
    /\ UNCHANGED <<promptVars, reducerVars, truncatorVars, driver, input, doc, shared, max_attempts,
                   num_attempts, measured, passes, prevArgs>>

(***************************************************************************)
(* Specification of a call of reduce_list_of_lengths: any vector (sorted   *)
(* or not, empty or not) and any target.                                   *)
(***************************************************************************)
IdleTruncator ==
    /\ tokenizer = "word"
    /\ text = <<>>
    /\ max_tokens = 0
    /\ ellipsis = <<>>
    /\ mode = [iterative |-> FALSE, strict |-> FALSE, retry |-> FALSE]
    /\ trunc = NoCall

IdleReducer ==
    /\ lengths = <<>>
    /\ max_length = 0
    /\ new_lengths = NoCall
    /\ again = NoCall
    /\ lower = NoCall

IdleDriver ==
    /\ driver = "none"
    /\ input = <<>>
    /\ doc = <<>>
    /\ shared = FALSE
    /\ turn_sep = <<>>
    /\ num_prev_turns = 0
    /\ prev_turns_lst = <<>>
    /\ max_attempts = 0
    /\ num_attempts = 0
    /\ measured = 0
    /\ passes = 0
    /\ warned = FALSE
    /\ result = NoCall

IdlePrompt ==
    /\ replay = <<>>
    /\ turn = 0
    /\ speaker = "None"
    /\ instructor_chat_turns = NoCall
    /\ turns = <<>>
    /\ num_utterances = 0
    /\ sep = <<>>
    /\ utterances = NoCall

InitReduce ==
    /\ pc = "reduce"
    /\ lengths \in SeqsUpTo(0..MaxItemLen, MaxItems)
    /\ max_length \in (-1)..(MaxItems * MaxItemLen + 1)
    /\ new_lengths = NoCall
    /\ again = NoCall
    /\ lower = NoCall
    /\ IdleTruncator
    /\ IdleDriver
    /\ IdlePrompt

ReduceCall ==
    /\ pc = "reduce"
    /\ new_lengths' = reduce_list_of_lengths(lengths, max_length)
    /\ pc' = "reduced"
    /\ UNCHANGED <<lengths, max_length, again, lower, truncatorVars, driverVars, promptVars>>

\* the caller reduces the returned vector once more to the same max_length
ReduceAgain ==
    /\ pc = "reduced"
    /\ new_lengths.status = "ok"
    /\ again' = reduce_list_of_lengths(new_lengths.lengths, max_length)
    /\ pc' = "reduced_again"
    /\ UNCHANGED <<lengths, max_length, new_lengths, lower, truncatorVars, driverVars, promptVars>>

\* the caller reduces the same vector to a max_length that is not larger
ReduceLower ==
    /\ pc = "reduced"
    /\ \E m \in (-1)..max_length :
           lower' = [max_length |-> m, new_lengths |-> reduce_list_of_lengths(lengths, m)]
    /\ pc' = "reduced_lower"
    /\ UNCHANGED <<lengths, max_length, new_lengths, again, truncatorVars, driverVars, promptVars>>

NextReduce ==
    \/ ReduceCall
    \/ ReduceAgain
    \/ ReduceLower

SpecReduce == InitReduce /\ [][NextReduce]_vars

InitTruncate ==
    /\ pc = "truncate"
    /\ tokenizer \in Tokenizers
    /\ text \in SeqsUpTo(Alphabet, MaxTextLen) \cup {FiveWords}
    /\ max_tokens \in (-1)..MaxBudget
    /\ ellipsis \in Ellipses
    /\ mode \in Modes
    /\ trunc = NoCall
    /\ IdleReducer
    /\ IdleDriver
    /\ IdlePrompt

TruncateCall ==
    /\ pc = "truncate"
    /\ trunc' = truncate_text_at_center(text, tokenizer, max_tokens, ellipsis, mode)
    /\ pc' = "truncated"
    /\ UNCHANGED <<tokenizer, text, max_tokens, ellipsis, mode, reducerVars, driverVars, promptVars>>

NextTruncate == TruncateCall

SpecTruncate == InitTruncate /\ [][NextTruncate]_vars

(***************************************************************************)
(* Specification of the drivers: a document built from FieldTexts, a       *)
(* budget between MaxCut below and one above the token count of the        *)
(* formatted document (or 0, 1, 2), and 1..MaxAttempts attempts.           *)
(***************************************************************************)
FieldTexts == {<<>>, <<"a">>, <<"a", "a", "a", "a">>, <<"a", " ", "a", " ", "a">>}

DomTrees ==
    {[text |-> t, attrib |-> a] :
        t \in FieldTexts \cup {None},
        a \in {<<>>} \cup {<<<<"id", v>>>> : v \in FieldTexts}
                \cup {<<<<"id", v>>, <<"class", w>>>> : v, w \in FieldTexts \ {<<>>}}}

\* the markers handed to the DOM driver: one is not part of the default
DomEllipses == Ellipses \cup {<<".", " ", ".">>}

Cand(rank, t) ==
    [rank |-> rank,
     elem_dict |-> [tag |-> <<"d", "i", "v">>, text |-> t],
     doc |-> convert_elem_dict_to_str([tag |-> <<"d", "i", "v">>, text |-> t])]

CandTurns ==
    {<<Cand("1", t)>> : t \in FieldTexts}
        \cup {<<Cand("1", t), Cand("2", u)>> : t, u \in FieldTexts}

Replays == {<<t>> : t \in FieldTexts} \cup {<<t, u>> : t, u \in FieldTexts}

\* token count of the formatted document the driver measures first
FirstMeasure(d, tk, document) ==
    IF d = "dom" THEN TokenCount(tk, get_tree_repr_simple(document))
    ELSE IF d = "cands" THEN TokenCount(tk, format_candidates(document))
    ELSE TokenCount(tk, format_prev_turns_truncated(document, tk, 0).text)

Budgets(n) == (0..2) \cup {b \in (n - MaxCut)..(n + 1) : b >= 0}

InitDrivers ==
    /\ driver \in {"dom", "cands", "prev"}
    /\ tokenizer \in Tokenizers
    /\ input \in (IF driver = "dom" THEN DomTrees
                  ELSE IF driver = "cands" THEN CandTurns ELSE Replays)
    /\ doc = (IF driver = "prev" THEN <<>> ELSE input)
    /\ shared = (driver # "prev")
    /\ turn_sep \in (IF driver = "prev" THEN {TurnSep, None} ELSE {<<>>})
    /\ num_prev_turns \in (IF driver = "prev" THEN Len(input)..MaxPrevTurns ELSE {0})
    /\ prev_turns_lst = (IF driver = "prev" THEN input ELSE <<>>)
    /\ max_tokens \in Budgets(FirstMeasure(driver, tokenizer, input))
    /\ max_attempts \in 1..MaxAttempts
    /\ ellipsis \in (IF driver = "dom" THEN DomEllipses ELSE {DefaultEllipsis})
    /\ mode \in {PassFlags(it) : it \in BOOLEAN}
    /\ pc = (IF driver = "prev" THEN "start" ELSE "run")
    /\ num_attempts = 0
    /\ measured = 0
    /\ passes = 0
    /\ warned = FALSE
    /\ result = NoCall
    /\ text = <<>>
    /\ trunc = NoCall
    /\ IdleReducer
    /\ IdlePrompt

NextDrivers ==
    \/ DomAttempt
    \/ DomFallback
    \/ CandsAttempt
    \/ CandsFallbackStep
    \/ PrevStart
    \/ PrevAttempt
    \/ PrevFallback

SpecDrivers == InitDrivers /\ [][NextDrivers]_vars

(***************************************************************************)
(* Utterances of the prompt.  A turn is a record                           *)
(*   [type, speaker, index, timestamp, utterance]                          *)
(* where type is "chat" or "browser", index is the position of the turn in *)
(* its replay counted from 0, timestamp is in whole seconds, and a browser *)
(* turn has no speaker: turn.get("speaker") is Python's None, written      *)
(* "None".                                                                 *)
(***************************************************************************)
Speakers == {"instructor", "navigator"}
TurnKinds == Speakers \cup {"browser"}

\* the utterance of the chat turn at index i: i + 1 words
Words(n) == [k \in 1..(2 * n - 1) |-> IF k % 2 = 1 THEN "a" ELSE " "]

MakeTurn(kind, i) ==
    IF kind = "browser"
    THEN [type |-> "browser", speaker |-> "None", index |-> i,
          timestamp |-> 61 * i, utterance |-> None]
    ELSE [type |-> "chat", speaker |-> kind, index |-> i,
          timestamp |-> 61 * i, utterance |-> Words(i + 1)]

PromptReplays ==
    {[i \in 1..Len(kinds) |-> MakeTurn(kinds[i], i - 1)] :
        kinds \in SeqsUpTo(TurnKinds, MaxTurns) \ {<<>>}}

Digits == <<"0", "1", "2", "3", "4", "5", "6", "7", "8", "9">>

\* "{m:02}" and "{s:02}" of an integer 0 <= n < 100
TwoDigits(n) == <<Digits[(n \div 10) + 1], Digits[(n % 10) + 1]>>

\* format_timestamp(turn, return_as=str) with start_time=0,
\* convert_to_minutes=True, time_template="{m:02}:{s:02}", decimal=0,
\* for a timestamp >= 0
format_timestamp(t) ==
    TwoDigits(t.timestamp \div 60) \o <<":">> \o TwoDigits(t.timestamp % 60)

\* template.format(**turn_dict) with template "[{timestamp}] {utterance}"
FormatUtterance(t) == <<"[">> \o format_timestamp(t) \o <<"]", " ">> \o t.utterance

NoInstructorUtterance ==
    <<"N", "o", " ", "i", "n", "s", "t", "r", "u", "c", "t", "o", "r", " ",
      "u", "t", "t", "e", "r", "a", "n", "c", "e">>

\* Python's lst[-n:]
LastItems(lst, n) ==
    IF n = 0 \/ n >= Len(lst) THEN lst ELSE SubSeq(lst, Len(lst) - n + 1, Len(lst))

\* lines 206-218: the turns that are formatted, type_filter="chat"
SelectedTurns(ts, n) ==
    Bind(SelectSeq(ts, LAMBDA t : t.type = "chat"), LAMBDA chat :
        IF Len(chat) <= n THEN chat ELSE SubSeq(chat, 1, 1) \o LastItems(chat, n))

\* format_utterances(turns, num_utterances, type_filter="chat", sep): a text,
\* or a list of texts when sep is None
format_utterances(ts, n, s) ==
    Bind(SelectedTurns(ts, n), LAMBDA selected_turns :
        IF Len(SelectSeq(ts, LAMBDA t : t.type = "chat")) <= 0
        THEN [status |-> "ok", type |-> "str", list |-> <<>>,
              text |-> NoInstructorUtterance]
        ELSE Bind(List([i \in 1..Len(selected_turns) |->
                          FormatUtterance(selected_turns[i])]), LAMBDA texts :
                 IF s = None
                 THEN [status |-> "ok", type |-> "list", list |-> texts, text |-> <<>>]
                 ELSE [status |-> "ok", type |-> "str", list |-> <<>>,
                       text |-> Join(s, texts)]))

\* the items `for i, text in enumerate(utterances)` visits: the texts of a
\* list, the characters of a str
UtteranceItems(u) ==
    IF u.type = "list" THEN u.list
    ELSE List([i \in 1..Len(u.text) |-> <<u.text[i]>>])

\* lines 517-533: the items cut to their reduced lengths in sorted order,
\* `utterances[rec["index"]] = trunc["text"]`, and the value returned
UtterancesWriteBack(u, items, tk, lens, red, s, iterative) ==
    Bind(List([i \in 1..Len(items) |->
                 IF red.lengths[i] >= lens[i]
                 THEN [status |-> "ok", text |-> items[i]]
                 ELSE Bind(truncate_text_at_center(items[i], tk, red.lengths[i],
                               DefaultEllipsis, PassFlags(iterative)), LAMBDA tr :
                          IF tr.status # "ok" THEN [status |-> tr.status]
                          ELSE IF u.type = "str" THEN [status |-> "TypeError"]
                          ELSE [status |-> "ok", text |-> tr.value.text])]),
         LAMBDA wb :
        IF \E i \in 1..Len(wb) : wb[i].status # "ok"
        THEN [status |-> FirstFailure(SortedOrder(lens), wb)]
        ELSE Bind(List([i \in 1..Len(wb) |-> wb[i].text]), LAMBDA new_items :
                 IF s = None
                 THEN IF u.type = "str"
                      THEN [status |-> "ok", type |-> "str", list |-> <<>>,
                            text |-> u.text]
                      ELSE [status |-> "ok", type |-> "list", list |-> new_items,
                            text |-> <<>>]
                 ELSE IF \E i \in 1..Len(new_items) : new_items[i] = None
                 THEN [status |-> "TypeError"]
                 ELSE [status |-> "ok", type |-> "str", list |-> <<>>,
                       text |-> Join(s, new_items)]))

\* format_utterances_truncated(turns, tokenizer, max_tokens, format_utterances,
\* num_utterances, type_filter="chat", sep, allow_iterative_reduction)
format_utterances_truncated(ts, tk, max, n, s, iterative) ==
    Bind(format_utterances(ts, n, None), LAMBDA u :
    Bind(UtteranceItems(u), LAMBDA items :
    Bind(Join(IF s = None THEN <<" ">> ELSE s, items), LAMBDA utterances_str :
    Bind(TokenCount(tk, utterances_str) - max, LAMBDA num_tokens_to_remove :
    Bind(List([i \in 1..Len(items) |-> TokenCount(tk, items[i])]), LAMBDA lens :
    Bind(ReducedLengths(lens, num_tokens_to_remove), LAMBDA red :
        IF red.status # "ok" THEN [status |-> red.status]
        ELSE UtterancesWriteBack(u, items, tk, lens, red, s, iterative)))))))

\* start_index = max(0, turn.index - num_prev_turns), without the window
StartIndexAtTurn(turn_index, num_prev) == turn_index

\* line 356: start_index = max(0, turn.index - num_prev_turns)
StartIndex(turn_index, num_prev) ==
    IF turn_index - num_prev > 0 THEN turn_index - num_prev ELSE 0

\* Replay.filter_turns(turn_filter): [turn for turn in self if turn_filter(turn)]
filter_turns(rep, turn_filter(_)) == SelectSeq(rep, turn_filter)

\* find_turns_with_instructor_chat(replay, turn, speaker, num_prev_turns)
find_turns_with_instructor_chat(rep, turn_index, who, num_prev) ==
    Bind(StartIndex(turn_index, num_prev), LAMBDA start_index :
        filter_turns(rep, LAMBDA t : t.speaker = who /\ t.index < start_index))

(***************************************************************************)
(* Specification of the utterances of a prompt: a replay of 1..MaxTurns    *)
(* turns of any kind, a turn of the replay, the instructor's or the        *)
(* navigator's earlier turns found for it, and these turns, or the whole   *)
(* replay, formatted with or without a budget.                             *)
(***************************************************************************)
UtterSep == <<" ">>
UtterBudgets == {0, 3, 4, 21, 25}

\* any turn, speaker and window with one way of formatting, or the
\* instructor's turns before the last turn with any way of formatting
InitPrompt ==
    /\ pc = "prompt"
    /\ replay \in PromptReplays
    /\ \/ /\ turn \in 0..(Len(replay) - 1)
          /\ speaker \in Speakers
          /\ num_prev_turns \in 0..MaxPrevTurns
          /\ num_utterances = MaxUtterances
          /\ sep = UtterSep
          /\ tokenizer = "word"
          /\ max_tokens = 4
       \/ /\ turn = Len(replay) - 1
          /\ speaker = "instructor"
          /\ num_prev_turns = 0
          /\ num_utterances \in 1..MaxUtterances
          /\ sep \in {UtterSep, None}
          /\ tokenizer \in Tokenizers
          /\ max_tokens \in UtterBudgets
    /\ instructor_chat_turns = NoCall
    /\ turns = <<>>
    /\ utterances = NoCall
    /\ mode = PassFlags(FALSE)
    /\ text = <<>>
    /\ ellipsis = <<>>
    /\ trunc = NoCall
    /\ driver = "none"
    /\ input = <<>>
    /\ doc = <<>>
    /\ shared = FALSE
    /\ turn_sep = <<>>
    /\ prev_turns_lst = <<>>
    /\ max_attempts = 0
    /\ num_attempts = 0
    /\ measured = 0
    /\ passes = 0
    /\ warned = FALSE
    /\ result = NoCall
    /\ IdleReducer

FindTurns ==
    /\ pc = "prompt"
    /\ instructor_chat_turns' =
           find_turns_with_instructor_chat(replay, turn, speaker, num_prev_turns)
    /\ pc' = "found"
    /\ UNCHANGED <<replay, turn, speaker, turns, num_utterances, sep, utterances,
                   reducerVars, truncatorVars, driverVars>>

\* the turns handed to the formatting: the turns found, or the whole replay
TurnsToFormat ==
    IF pc = "found" THEN {instructor_chat_turns, List(replay)} ELSE {List(replay)}

FormatUtterances ==
    /\ pc \in {"prompt", "found"}
    /\ \E ts \in TurnsToFormat :
           /\ turns' = ts
           /\ utterances' = format_utterances(ts, num_utterances, sep)
    /\ pc' = "formatted"
    /\ UNCHANGED <<replay, turn, speaker, instructor_chat_turns, num_utterances, sep,
                   reducerVars, truncatorVars, driverVars>>

FormatUtterancesTruncated ==
    /\ pc \in {"prompt", "found"}
    /\ \E ts \in TurnsToFormat :
           /\ turns' = ts
           /\ utterances' = format_utterances_truncated(ts, tokenizer, max_tokens,
                                num_utterances, sep, mode.iterative)
    /\ pc' = "formatted_truncated"
    /\ UNCHANGED <<replay, turn, speaker, instructor_chat_turns, num_utterances, sep,
                   reducerVars, truncatorVars, driverVars>>

NextPrompt ==
    \/ FindTurns
    \/ FormatUtterances
    \/ FormatUtterancesTruncated

SpecPrompt == InitPrompt /\ [][NextPrompt]_vars

(***************************************************************************)
(* Properties of reduce_list_of_lengths.                                   *)
(***************************************************************************)
Ascending(L) == \A i \in 1..(Len(L) - 1) : L[i] <= L[i + 1]

Reduced == pc = "reduced"
ReducedOk == Reduced /\ new_lengths.status = "ok"

C2_ShapeKept ==
    (ReducedOk /\ Ascending(lengths))
        => /\ Len(new_lengths.lengths) = Len(lengths)
           /\ Ascending(new_lengths.lengths)
           /\ \A i \in 1..Len(lengths) :
                /\ new_lengths.lengths[i] >= 0
                /\ new_lengths.lengths[i] <= lengths[i]

C2_Witness ==
    /\ ReducedOk
    /\ lengths = <<3, 3, 4>>
    /\ max_length = 8
    /\ new_lengths.lengths = <<2, 3, 3>>

(***************************************************************************)
(* Properties of truncate_text_at_center.                                  *)
(***************************************************************************)
Truncated == pc = "truncated"
Returned == Truncated /\ trunc.status = "ok"
EllipsisCost == TokenCount(tokenizer, ellipsis)
InputCount == TokenCount(tokenizer, text)

DefaultFlags == mode.retry /\ ~mode.strict /\ ~mode.iterative

\* C4: for every text and every max_tokens >= token_count(ellipsis), the
\* returned text, tokenized again with the same tokenizer, has at most
\* max_tokens tokens (default flags).
C4_WithinBudget ==
    (Returned /\ DefaultFlags /\ max_tokens >= EllipsisCost)
        => /\ trunc.value.text # None
           /\ TokenCount(tokenizer, trunc.value.text) <= max_tokens

\* C8: whenever the text has at most max_tokens tokens, the call returns the
\* input text itself with length = its token count, whatever the ellipsis
\* and the flags.
C8_FitsUnchanged ==
    (Truncated /\ InputCount <= max_tokens)
        => /\ trunc.status = "ok"
           /\ trunc.value.text = text
           /\ "length" \in DOMAIN trunc.value
           /\ trunc.value.length = InputCount

C8_Witness ==
    /\ Returned
    /\ tokenizer = "piece"
    /\ text = <<"a", ".">>
    /\ ellipsis = <<".", ".">>
    /\ max_tokens = 1
    /\ mode.strict /\ mode.iterative
    /\ trunc.value.text = text

\* C9 as stated: the returned text is null exactly when
\* max_tokens < token_count(ellipsis), also for texts that fit.
C9_Original ==
    Returned => ((trunc.value.text = None) <=> (max_tokens < EllipsisCost))

\* C9 amended: the returned text is null exactly when the text has more than
\* max_tokens tokens and max_tokens < token_count(ellipsis); a text that fits
\* is returned as it is.
C9_Amended ==
    Returned => ((trunc.value.text = None)
                    <=> (InputCount > max_tokens /\ max_tokens < EllipsisCost))

C9_Witness ==
    /\ Returned
    /\ tokenizer = "piece"
    /\ text = <<"a", "a">>
    /\ ellipsis = <<".", ".">>
    /\ max_tokens = 1
    /\ trunc.value.text = None

\* C10: every returned result carries both `text` and `length`, and length
\* is the token count of the returned text (0 when the text is null).
C10_TextAndLength ==
    Returned
        => /\ {"text", "length"} \subseteq DOMAIN trunc.value
           /\ trunc.value.length
                = (IF trunc.value.text = None THEN 0
                   ELSE TokenCount(tokenizer, trunc.value.text))

\* C11: in strict mode (assert_max_tokens) a call never returns a text with
\* more than max_tokens tokens: it raises the assertion error or returns a
\* text within budget, also when only the retry without ellipsis fits.
C11_StrictWithinBudget ==
    (Returned /\ mode.strict /\ trunc.value.text # None)
        => TokenCount(tokenizer, trunc.value.text) <= max_tokens

\* C12: with allow_iterative_reduction and max_tokens > token_count(ellipsis)
\* the call returns (no exception) a text of at most max_tokens tokens, and a
\* text that did not fit is the splice of a window that lies inside the token
\* sequence.
C12_IterativeConverges ==
    (Truncated /\ mode.iterative /\ max_tokens > EllipsisCost)
        => /\ trunc.status = "ok"
           /\ trunc.value.text # None
           /\ TokenCount(tokenizer, trunc.value.text) <= max_tokens
           /\ InputCount > max_tokens =>
                \E n \in 1..InputCount :
                    /\ WindowLeft(InputCount, n) >= 0
                    /\ WindowRight(InputCount, n) <= InputCount
                    /\ SpliceFor(tokenizer, text, ellipsis, n).text = trunc.value.text

\* the first splice "a..." has 3 tokens (a. | . | .), the loop widens the
\* window and returns "..."
C12_Witness ==
    /\ Returned /\ mode.iterative
    /\ tokenizer = "piece"
    /\ text = <<"a", "a", "a", "a">>
    /\ ellipsis = <<".", ".", ".">>
    /\ max_tokens = 2
    /\ TokenCount(tokenizer, SpliceFor(tokenizer, text, ellipsis,
           NumTokensToRemove(InputCount, max_tokens, EllipsisCost)).text) > max_tokens
    /\ trunc.value.text = <<".", ".", ".">>

\* C26: in non-iterative mode, for a text of L > max_tokens > e tokens (e the
\* token count of the ellipsis), the returned text is the characters before
\* a token window [left, right), the ellipsis, and the characters after it,
\* where the window has L - (max_tokens - e) tokens, lies in 0..L, contains
\* the center index L div 2, and leaves numbers of tokens before and after
\* it that differ by at most 1.
C26_CenterWindow ==
    (Returned /\ ~mode.iterative
        /\ InputCount > max_tokens /\ max_tokens > EllipsisCost)
        => \E left \in 0..InputCount : \E right \in 0..InputCount :
              /\ right - left = InputCount - (max_tokens - EllipsisCost)
              /\ left < right
              /\ left <= InputCount \div 2 /\ InputCount \div 2 < right
              /\ left - (InputCount - right) \in {-1, 0, 1}
              /\ trunc.value.text =
                     SubSeq(text, 1, Tokenize(tokenizer, text)[left + 1][1])
                         \o ellipsis
                         \o SubSeq(text, Tokenize(tokenizer, text)[right][2] + 1, Len(text))

\* five words cut to three tokens: the second, third and fourth word go
C26_Witness ==
    /\ Returned /\ ~mode.iterative
    /\ tokenizer = "word"
    /\ text = FiveWords
    /\ ellipsis = <<".", ".", ".">>
    /\ max_tokens = 3
    /\ trunc.value.text = <<"a", " ", ".", ".", ".", " ", "a">>

\* C27: with allow_iterative_reduction, when the first splice, which removes
\* token_count(text) - (max_tokens - token_count(ellipsis)) tokens, already
\* has at most max_tokens tokens, that splice is the returned text.
C27_FirstSpliceReturned ==
    (Returned /\ mode.iterative
        /\ InputCount > max_tokens /\ max_tokens > EllipsisCost
        /\ TokenCount(tokenizer, SpliceFor(tokenizer, text, ellipsis,
               NumTokensToRemove(InputCount, max_tokens, EllipsisCost)).text) <= max_tokens)
        => trunc.value.text
             = SpliceFor(tokenizer, text, ellipsis,
                   NumTokensToRemove(InputCount, max_tokens, EllipsisCost)).text

(***************************************************************************)
(* Properties of the multi-attempt drivers.                                *)
(***************************************************************************)
Finished == pc \in {"returned", "raised"}

\* token count of the formatted document the driver holds
FormattedCount ==
    IF driver = "prev"
    THEN TokenCount(tokenizer, IF turn_sep = None THEN Join(TurnSep, doc) ELSE doc)
    ELSE FirstMeasure(driver, tokenizer, doc)

FirstFits == FirstMeasure(driver, tokenizer, input) <= max_tokens

\* the returned result, formatted, has at most max_tokens tokens
ResultFits ==
    IF driver = "dom"
    THEN /\ result.tree_repr # None
         /\ TokenCount(tokenizer, result.tree_repr) <= max_tokens
    ELSE IF driver = "cands"
    THEN /\ \A i \in 1..Len(result.cands_turn) : result.cands_turn[i].doc # None
         /\ TokenCount(tokenizer, format_candidates(result.cands_turn)) <= max_tokens
    ELSE IF turn_sep = None
    THEN /\ \A i \in 1..Len(result.list) : result.list[i] # None
         /\ TokenCount(tokenizer, Join(TurnSep, result.list)) <= max_tokens
    ELSE /\ result.text # None
         /\ TokenCount(tokenizer, result.text) <= max_tokens

\* the returned result is the caller's document, formatted as it was
ResultIsInput ==
    IF driver = "dom"
    THEN result.dom_tree = input /\ result.tree_repr = get_tree_repr_simple(input)
    ELSE IF driver = "cands" THEN result.cands_turn = input
    ELSE IF turn_sep = None
    THEN result.list = format_prev_turns_truncated(input, tokenizer, 0).list
    ELSE result.text = format_prev_turns_truncated(input, tokenizer, 0).text

\* C3: a driver that has exhausted its structured passes falls back to the
\* direct truncation and returns a result of at most max_tokens tokens,
\* provided max_tokens >= token_count(ellipsis).
C3_FallbackFits ==
    (Finished /\ warned /\ max_tokens >= TokenCount(tokenizer, DefaultEllipsis))
        => pc = "returned" /\ ResultFits

\* C5: in one invocation of a driver the number of structured reducing
\* passes never exceeds max_attempts.
C5_PassesBounded == passes <= max_attempts

\* C6: the warning and the direct fallback truncation happen only from a
\* document that is still over max_tokens after the last structured pass.
C6_FallbackOnlyOverBudget ==
    [][(~warned /\ warned') => FormattedCount > max_tokens]_vars

C13_NullTextIsValue ==
    (driver = "cands" /\ pc = "raised") => result.status # "TypeError"

\* C14: whatever the candidate passes remove, the value under a protected
\* key (tag) of every candidate's elem_dict is the value of the input; only
\* the other fields are shortened.
C14_ProtectedKept ==
    driver = "cands" =>
        \A i \in 1..Len(doc) : doc[i].elem_dict.tag = input[i].elem_dict.tag

\* a pass has shortened the text of a candidate and left its tag
C14_Witness ==
    /\ driver = "cands" /\ passes > 0
    /\ \E i \in 1..Len(doc) :
           /\ doc[i].elem_dict.text # input[i].elem_dict.text
           /\ doc[i].elem_dict.tag = input[i].elem_dict.tag
           /\ "tag" \in protected_elem_keys

\* C15: the DOM passes never shorten or remove the protected attribute id:
\* every id attribute of the input tree is on the tree with its value after
\* any number of passes.
C15_IdKept ==
    driver = "dom" =>
        \A i \in 1..Len(input.attrib) :
            input.attrib[i][1] = "id" =>
                \E j \in 1..Len(doc.attrib) : doc.attrib[j] = input.attrib[i]

\* C16: a pass of the DOM driver that gives reduced length 0 to a record of
\* length > 0 completes and clears the record: the driver does not fail on
\* a tree whose only non-empty record is an attribute and whose budget
\* leaves that record nothing.
C16_ZeroLengthCleared ==
    (/\ driver = "dom" /\ passes = 1 /\ num_attempts = 1
     /\ input.text \in {None, <<>>}
     /\ Len(input.attrib) = 1
     /\ TokenCount(tokenizer, input.attrib[1][2]) > 0
     /\ measured - max_tokens >= TokenCount(tokenizer, input.attrib[1][2]))
        => /\ pc # "raised"
           /\ doc.attrib = <<>>

C18_Idempotent ==
    (pc = "reduced_again" /\ Ascending(lengths)) => again = new_lengths

C18_Witness ==
    /\ pc = "reduced_again"
    /\ lengths = <<1, 3, 4>>
    /\ max_length = 6
    /\ new_lengths.lengths = <<1, 2, 3>>
    /\ again = [status |-> "ok", lengths |-> <<1, 2, 3>>]

\* C19: for an ascending vector and two values of max_length, every item
\* returned for the smaller one is at most the item returned at the same
\* position for the larger one.
C19_MonotoneInTarget ==
    (pc = "reduced_lower" /\ Ascending(lengths) /\ Len(lengths) > 0)
        => /\ new_lengths.status = "ok"
           /\ lower.new_lengths.status = "ok"
           /\ Len(lower.new_lengths.lengths) = Len(new_lengths.lengths)
           /\ \A i \in 1..Len(lengths) :
                lower.new_lengths.lengths[i] <= new_lengths.lengths[i]

\* the loop stops at the second item for 6 and at the first item for 2, and
\* the two calls add back different remainders
C19_Witness ==
    /\ pc = "reduced_lower"
    /\ lengths = <<1, 4, 4>>
    /\ max_length = 6
    /\ BreakIndex(lengths, max_length) = 2
    /\ new_lengths.lengths = <<1, 2, 3>>
    /\ lower.max_length = 2
    /\ BreakIndex(lengths, lower.max_length) = 1
    /\ lower.new_lengths.lengths = <<0, 1, 1>>

\* C20: a vector with an adjacent pair L[i] > L[i+1] is rejected with an
\* assertion error for every max_length, also when its sum is at most
\* max_length and when max_length <= 0; no vector is returned.
C20_UnsortedRejected ==
    (Reduced /\ ~Ascending(lengths))
        => new_lengths = [status |-> "AssertionError"]

\* the descent is after the first pair and the sum is within max_length
C20_Witness ==
    /\ Reduced
    /\ lengths = <<1, 3, 2>>
    /\ max_length = 13
    /\ new_lengths.status = "AssertionError"

\* the total when the items from index i on are all cut to lengths[i]
LevelTotal(L, i) == SumSeq(SubSeq(L, 1, i - 1)) + L[i] * (Len(L) - (i - 1))

\* the water-filling reference: i is the first index whose level total
\* exceeds m, k the number of items from i on, P the sum before i
WaterFilling(L, m) ==
    LET i == CHOOSE q \in 1..Len(L) :
                 /\ LevelTotal(L, q) > m
                 /\ \A j \in 1..(q - 1) : LevelTotal(L, j) <= m
        k == Len(L) - (i - 1)
        P == SumSeq(SubSeq(L, 1, i - 1))
    IN  [j \in 1..Len(L) |->
            IF j < i THEN L[j]
            ELSE ((m - P) \div k) + (IF j > Len(L) - ((m - P) % k) THEN 1 ELSE 0)]

\* C24: for an ascending vector and 0 < max_length < sum, the returned
\* vector is the water-filling reference: the items before the first index
\* i whose level total exceeds max_length keep their length, the k others
\* get floor((max_length - P) / k), and the last (max_length - P) mod k
\* items get one more.
C24_WaterFilling ==
    (Reduced /\ Ascending(lengths) /\ Len(lengths) > 0
        /\ 0 < max_length /\ max_length < SumSeq(lengths))
        => new_lengths = [status |-> "ok", lengths |-> WaterFilling(lengths, max_length)]

\* the first item is kept, 5 is shared by two items with a remainder of 1
C24_Witness ==
    /\ Reduced
    /\ lengths = <<2, 4, 4>>
    /\ max_length = 7
    /\ new_lengths = [status |-> "ok", lengths |-> <<2, 2, 3>>]

(***************************************************************************)
(* Further properties of the multi-attempt drivers.                        *)
(***************************************************************************)
\* token length of a field value, 0 for a null value
FieldCount(v) == IF v = None THEN 0 ELSE TokenCount(tokenizer, v)

\* a reducing pass that follows an earlier one
LaterPass == pc = "run" /\ passes >= 1 /\ passes' = passes + 1 /\ pc' # "raised"

\* C25 for the DOM driver: no text or attribute value is longer after a
\* later pass than it was before that pass
DomPassesCumulative ==
    (LaterPass /\ driver = "dom")
        => /\ FieldCount(doc'.text) <= FieldCount(doc.text)
           /\ \A j \in 1..Len(doc'.attrib) :
                \E i \in 1..Len(doc.attrib) :
                    /\ doc.attrib[i][1] = doc'.attrib[j][1]
                    /\ FieldCount(doc'.attrib[j][2]) <= FieldCount(doc.attrib[i][2])

\* C25 for the candidate driver
CandsPassesCumulative ==
    (LaterPass /\ driver = "cands")
        => \A i \in 1..Len(doc) :
              FieldCount(doc'[i].elem_dict.text) <= FieldCount(doc[i].elem_dict.text)

\* C25 for the previous-turns driver
PrevPassesCumulative ==
    (LaterPass /\ driver = "prev")
        => \A i \in 1..Len(prev_turns_lst) :
              FieldCount(prev_turns_lst'[i]) <= FieldCount(prev_turns_lst[i])

\* C25: every reducing pass after the first works on the document as the
\* previous pass left it: for every field, its token length after pass k is
\* at most its token length after pass k - 1, in the DOM, candidate and
\* previous-turns drivers.
C25_PassesCumulative ==
    [][DomPassesCumulative /\ CandsPassesCumulative /\ PrevPassesCumulative]_vars

\* t contains m as a run of consecutive characters
Contains(t, m) ==
    \E p \in 0..(Len(t) - Len(m)) : SubSeq(t, p + 1, p + Len(m)) = m

\* C28: the DOM driver marks a truncation with the caller's ellipsis: after
\* the first pass every text or attribute value that was shortened to a
\* non-null value contains that ellipsis, and so does a tree representation
\* that the fallback has truncated to a non-null text.
C28_CallerEllipsis ==
    driver = "dom" =>
        /\ (pc = "run" /\ passes = 1) =>
              /\ doc.text \notin {None, input.text} => Contains(doc.text, ellipsis)
              /\ \A j \in 1..Len(doc.attrib) :
                    (\A i \in 1..Len(input.attrib) : input.attrib[i] # doc.attrib[j])
                        => Contains(doc.attrib[j][2], ellipsis)
        /\ (pc = "returned" /\ warned /\ result.tree_repr # None
                /\ result.tree_repr # get_tree_repr_simple(doc))
              => Contains(result.tree_repr, ellipsis)

\* C29: with copy enabled the multi-attempt DOM and candidate drivers never
\* modify the structure the caller passed in: every write of a pass goes to a
\* deep copy, and the fallback writes to the list the last pass returned.
C29_CallerUnchanged == [][input' = input]_vars

\* the candidate driver has run its passes and its fallback on a copy: the
\* returned list differs from the caller's, which is no longer shared
C29_Witness ==
    /\ driver = "cands" /\ pc = "returned"
    /\ warned /\ passes > 0
    /\ ~shared
    /\ result.cands_turn # input
    /\ \A i \in 1..Len(input) :
           input[i].doc = convert_elem_dict_to_str(input[i].elem_dict)

\* C30: the list-mode fallback of the previous-turns driver (turn_sep None,
\* attempts exhausted) indexes only the previous turns that exist: it never
\* fails with an index error, and the list it returns has one entry per
\* existing previous turn, also when there are fewer than num_prev_turns.
C30_ListFallbackInRange ==
    (driver = "prev" /\ turn_sep = None /\ warned /\ Finished)
        => /\ result.status # "IndexError"
           /\ pc = "returned" => Len(result.list) = Len(input)


(***************************************************************************)
(* Properties of the utterances of a prompt.                               *)
(***************************************************************************)
\* the turns of `turns` that pass the type filter "chat"
ChatTurns == SelectSeq(turns, LAMBDA t : t.type = "chat")

\* the first turn followed by the last n - 1 turns, or all of at most n turns
FirstAndLast(chat, n) ==
    IF Len(chat) <= n THEN chat
    ELSE SubSeq(chat, 1, 1) \o SubSeq(chat, Len(chat) - n + 2, Len(chat))

FormattedTurns(ts) == [i \in 1..Len(ts) |-> FormatUtterance(ts[i])]

\* C21: format_utterances: when more than num_utterances turns pass the type
\* filter, the utterances returned are the first one followed by the last
\* num_utterances - 1 (num_utterances in total, in their original order);
\* when at most num_utterances pass, all of them are returned.
C21_FirstAndLast ==
    (pc = "formatted" /\ ChatTurns # <<>>) =>
        /\ utterances.status = "ok"
        /\ IF sep = None
           THEN utterances.list = FormattedTurns(FirstAndLast(ChatTurns, num_utterances))
           ELSE utterances.text
                    = Join(sep, FormattedTurns(FirstAndLast(ChatTurns, num_utterances)))

\* C22: format_utterances_truncated: when no turn passes the type filter and
\* the separator is a string, the result is exactly the text
\* "No instructor utterance", for every max_tokens this text fits in.
C22_NoUtteranceText ==
    (/\ pc = "formatted_truncated"
     /\ ChatTurns = <<>>
     /\ sep # None
     /\ TokenCount(tokenizer, NoInstructorUtterance) <= max_tokens) =>
        /\ utterances.status = "ok"
        /\ utterances.text = NoInstructorUtterance

\* C23: find_turns_with_instructor_chat returns exactly the turns of the
\* replay, in replay order, whose speaker is `speaker` and whose index is below
\* max(0, turn.index - num_prev_turns): no turn of the last num_prev_turns
\* before `turn`, and no turn at or after `turn`, is returned.
C23_TurnsBeforeWindow ==
    (pc = "found") =>
        LET found == instructor_chat_turns
            start == IF turn - num_prev_turns > 0 THEN turn - num_prev_turns ELSE 0
            Wanted(t) == t.speaker = speaker /\ t.index < start
        IN  /\ \A i \in 1..Len(found) :
                   /\ found[i].index \in 0..(Len(replay) - 1)
                   /\ found[i] = replay[found[i].index + 1]
                   /\ Wanted(found[i])
                   /\ found[i].index < turn - num_prev_turns
                   /\ found[i].index < turn
            /\ \A i, j \in 1..Len(found) : i < j => found[i].index < found[j].index
            /\ \A k \in 1..Len(replay) :
                   Wanted(replay[k]) => \E i \in 1..Len(found) : found[i] = replay[k]

\* a turn of the speaker is found before the window, one of the speaker's
\* turns lies inside the window and `turn` itself is the speaker's
C23_Witness ==
    /\ pc = "found"
    /\ num_prev_turns >= 1
    /\ Len(instructor_chat_turns) >= 1
    /\ replay[turn + 1].speaker = speaker
    /\ \E k \in 1..Len(replay) :
           /\ replay[k].speaker = speaker
           /\ replay[k].index >= turn - num_prev_turns
           /\ replay[k].index < turn

====
